---- MODULE Spec2Model ----
(***************************************************************************)
(* Model of the download orchestration of Repack-Manager: the class        *)
(* DownloaderGUI of src/repack.py and of src/richer_gui.py (the two        *)
(* variants of the program).  The main (Tk) thread runs the handlers        *)
(* load_urls, start_downloads, pause_downloads, stop_downloads and          *)
(* check_queue one at a time; every start_downloads spawns a thread         *)
(* running download_worker, and load_urls of richer_gui.py spawns a thread  *)
(* running scrape_worker.  The threads share the fields of DownloaderGUI.    *)
(*                                                                         *)
(* The Tk variables the user edits (output directory, clean temp files,    *)
(* verify checksum) are inputs of the statement that reads them.           *)
(***************************************************************************)
EXTENDS Integers, Sequences, FiniteSets, TLC

VARIABLES
    profile,             \* the bounds of this behaviour (see Profiles)
    variant,             \* which file is running: "repack" or "richer"
    session_refresh_var, \* the recycle threshold
    download_items,      \* self.download_items: the list of DownloadItem
    gen,                 \* number of times the list was replaced by a load
    is_downloading,      \* self.is_downloading
    driver,              \* self.driver: 0 is None, else a session handle
    gui_queue,           \* self.gui_queue
    start_btn,           \* TRUE iff the button is enabled
    pause_btn,
    stop_btn,
    quits,               \* quits[h]: how often driver.quit() was called on h (2: twice or more)
    fs,                  \* the output directory: per url the artifact found
    workers,             \* the download_worker threads, in spawn order
    scrapers,            \* the scrape_worker threads (richer_gui.py)
    loading,             \* the load_urls call in progress on the main thread
    nloads,              \* calls of load_urls so far
    faults,              \* exceptions raised by external operations so far
    stop_quits,          \* the values of self.driver stop_downloads found (history)
    loaded,              \* the urls the list was last filled from (history, if tracked)
    warned               \* start_downloads has shown a warning (history, if tracked)

vars == <<profile, variant, session_refresh_var, download_items, gen, is_downloading, driver,
          gui_queue, start_btn, pause_btn, stop_btn, quits, fs, workers, scrapers,
          loading, nloads, faults, stop_quits, loaded, warned>>

config == <<profile, variant, session_refresh_var>>

buttons == <<start_btn, pause_btn, stop_btn>>

(***************************************************************************)
(* Bounds of the model.                                                    *)
(***************************************************************************)
MaxRuns == 2

MaxLoads == 2

MaxInput == 2

MaxFaults == 1

MaxQueue == 3

URLS == {"A", "B"}

\* A behaviour is explored within one of these bounds: a single run on
\* lists of up to MaxInput urls in which external operations raise up to
\* MaxFaults times; MaxRuns runs (which may overlap) on shorter lists; a
\* single run with MaxLoads loads of shorter lists; MaxLoads loads of lists
\* of up to MaxInput urls before any run, where the urls given to the last
\* load are recorded (track).  The recycle threshold is drawn up to the
\* length of the lists: a larger one never triggers.
Profiles ==
    {[runs |-> MaxRuns - 1, loads |-> MaxLoads - 1, faults |-> MaxFaults, input |-> MaxInput,
      track |-> FALSE],
     [runs |-> MaxRuns, loads |-> MaxLoads - 1, faults |-> 0, input |-> MaxInput - 1,
      track |-> FALSE],
     [runs |-> MaxRuns - 1, loads |-> MaxLoads, faults |-> 0, input |-> MaxInput - 1,
      track |-> FALSE],
     [runs |-> MaxRuns - 2, loads |-> MaxLoads, faults |-> MaxFaults, input |-> MaxInput,
      track |-> TRUE]}

\* The urls the inputs are drawn from: as many as the lists are long.
Urls == IF profile.input = 1 THEN {"A"} ELSE URLS

(***************************************************************************)
(* DownloadStatus and DownloadItem.                                        *)
(***************************************************************************)
PENDING == "pending"

DOWNLOADING == "downloading"

COMPLETED == "completed"

FAILED == "failed"

SKIPPED == "skipped"

\* DownloadItem.__init__: size 0, checksum, error and the timestamps None.
\* A timestamp, a size and a digest are modelled by whether they are set.
DownloadItem(url) ==
    [url |-> url, status |-> PENDING, size |-> FALSE, checksum |-> FALSE,
     error |-> FALSE, start_time |-> FALSE, end_time |-> FALSE]

(***************************************************************************)
(* Pure helpers.                                                           *)
(***************************************************************************)
\* The urls taken as they come: a fault the deduplication rule detects.
NoDedup(urls) == urls

RECURSIVE Dedup(_)
\* list(dict.fromkeys(urls)): each url once, in order of first occurrence.
Dedup(urls) ==
    IF urls = <<>> THEN <<>>
    ELSE LET front == Dedup(SubSeq(urls, 1, Len(urls) - 1))
             last == urls[Len(urls)]
         IN IF \E i \in 1..Len(front) : front[i] = last
            THEN front
            ELSE Append(front, last)

\* The items process_loaded_urls / load_urls build from the urls.
NewItems(urls) ==
    LET d == Dedup(urls) IN [i \in 1..Len(d) |-> DownloadItem(d[i])]

\* What read_urls_from_txt or scrape_links may return.
InputSeqs == UNION {[1..n -> Urls] : n \in 0..profile.input}

\* The artifact check_file_exists finds for a url, by the end of its name:
\* "none" is no file, ".rar" a finished file, the others are left-overs
\* (".part" is treated like ".crdownload" everywhere and is not drawn).
Artifacts == {"none", ".rar", ".crdownload", ".tmp"}

\* The suffixes the clean-up at the start of download_worker removes.
TempSuffixes == {".crdownload", ".part", ".tmp"}

\* The suffixes the skip test of download_worker excludes, in file v.
PartialSuffixesIn(v) ==
    IF v = "repack" THEN {".crdownload", ".part", ".tmp"}
    ELSE {".crdownload", ".part"}

\* The suffixes the skip test of the running file excludes.
PartialSuffixes == PartialSuffixesIn(variant)

\* The skip test with the "not" forgotten: a fault the skip rule detects.
SkipTestInverted(existing) == existing # "none" /\ existing \in PartialSuffixes

\* existing and not existing.endswith(...)
SkipTest(existing) == existing # "none" /\ existing \notin PartialSuffixes

\* The directory after the clean-up loop.
Cleaned(dir) == [u \in DOMAIN dir |-> IF dir[u] \in TempSuffixes THEN "none" ELSE dir[u]]

\* A message on gui_queue: its type, the level of a log line and the urls
\* of a scrape_result.
Ev(type, level) == [type |-> type, level |-> level, urls |-> <<>>]

\* gui_queue.put of n messages: the model holds at most MaxQueue messages.
CanPut(n) == Len(gui_queue) + n <= MaxQueue

\* Session handles: 0 is None; the k-th session worker w sets up, and the
\* session of the n-th load_urls.
WorkerHandle(w, k) == 10 * w + k

LoadHandle(n) == 100 + n

\* setup_driver returned h.
Opened(q, h) == [x \in DOMAIN q \cup {h} |-> IF x = h THEN 0 ELSE q[x]]

\* A quit that counts double: a fault the re-run rule detects.
QuitTwice(q, h) == [q EXCEPT ![h] = 2]

\* driver.quit() on handle h.
Quit(q, h) == [q EXCEPT ![h] = IF @ = 0 THEN 1 ELSE 2]

\* A teardown that forgets the session: a fault the release rule detects.
NoQuit(q) == q

\* if self.driver: self.driver.quit()
QuitDriver(q) == IF driver # 0 THEN Quit(q, driver) ELSE q

\* The sessions that are open.
OpenHandles == {h \in DOMAIN quits : quits[h] = 0}

\* A download_worker thread at its first statement.  existing is the local
\* variable of that name, h the session a call of click_download_button in
\* progress works on.  The other fields record what the thread did:
\* acquired (the sessions it set up), calls (the calls of
\* click_download_button: the task and the result), skipped (the tasks it
\* skipped), completes (the download_complete messages it put), cancelled
\* (whether pause_downloads or stop_downloads ran while it was alive), late
\* (whether it took a task after that), cause (the statement that
\* raised), since (the True results since its last setup_driver), checks
\* (what check_file_exists reported at the turn of each task), rechecks (the
\* tasks it called check_file_exists for after a result) and log_calls (the
\* calls of self.log the thread made itself).
NewWorker ==
    [pc |-> "start", idx |-> 1, url |-> "", itemGen |-> 0, dsr |-> 0,
     existing |-> "none", h |-> 0,
     acquired |-> {}, calls |-> <<>>, skipped |-> {},
     completes |-> 0, cancelled |-> "no", late |-> FALSE, cause |-> "none",
     since |-> 0, checks |-> <<>>, queued |-> 0, dir |-> FALSE,
     log_calls |-> 0, rechecks |-> <<>>]

Alive(w) == workers[w].pc \notin {"done", "dead"}

AliveWorkers == {w \in 1..Len(workers) : Alive(w)}

\* The task the worker w is at: the item object is named by the load that
\* built it and its place in the list.
TaskOf(w) == [g |-> workers[w].itemGen, i |-> workers[w].idx]

\* The worker's item is still an element of self.download_items.
Attached(w) == workers[w].itemGen = gen /\ workers[w].idx <= Len(download_items)

(***************************************************************************)
(* Init: the state after DownloaderGUI.__init__ and load_settings.         *)
(***************************************************************************)
Init ==
    /\ profile \in Profiles
    /\ variant \in {"repack", "richer"}
    /\ session_refresh_var \in 1..profile.input
    /\ download_items = <<>>
    /\ gen = 0
    /\ is_downloading = FALSE
    /\ driver = 0
    /\ gui_queue = <<>>
    /\ start_btn = TRUE
    /\ pause_btn = FALSE
    /\ stop_btn = FALSE
    /\ quits = <<>>
    /\ fs \in {f \in [URLS -> Artifacts] : \A u \in URLS \ Urls : f[u] = "none"}
    /\ workers = <<>>
    /\ scrapers = <<>>
    /\ loading = [active |-> FALSE, h |-> 0, txt |-> <<>>]
    /\ nloads = 0
    /\ faults = 0
    /\ stop_quits = {}
    /\ loaded = <<>>
    /\ warned = FALSE

(***************************************************************************)
(* The handlers of the main thread.  The Tk main loop runs one handler at  *)
(* a time; a button that is disabled does not call its command.            *)
(***************************************************************************)
MainIdle == ~loading.active

\* process_loaded_urls, and the tail of load_urls of repack.py: the list is
\* cleared and refilled with new items.
ProcessLoaded(urls) ==
    /\ download_items' = NewItems(urls)
    /\ gen' = gen + 1
    /\ loaded' = IF profile.track THEN urls ELSE loaded

\* The end of load_urls: nothing changes when no url was found.
FinishLoad(urls) ==
    IF urls = <<>>
    THEN UNCHANGED <<download_items, gen, loaded>>
    ELSE ProcessLoaded(urls)

\* load_urls.  txt: the urls of the text file (empty when there is none);
\* main_url: whether a page to scrape is given.  repack.py scrapes in the
\* handler: the session is open while scrape_links runs (LoadUrlsScraped
\* is the rest of the handler).  richer_gui.py spawns scrape_worker and
\* returns, dropping the urls of the text file.
LoadUrls(txt, main_url) ==
    /\ MainIdle
    /\ nloads < profile.loads
    /\ nloads' = nloads + 1
    /\ IF variant = "repack"
       THEN /\ UNCHANGED scrapers
            /\ IF main_url
               THEN \/ /\ quits' = Opened(quits, LoadHandle(nloads + 1))
                       /\ loading' = [active |-> TRUE, h |-> LoadHandle(nloads + 1),
                                       txt |-> txt]
                       /\ UNCHANGED <<download_items, gen, loaded, faults>>
                    \/ /\ faults < profile.faults
                       /\ faults' = faults + 1
                       /\ FinishLoad(txt)
                       /\ UNCHANGED <<quits, loading>>
               ELSE /\ FinishLoad(txt)
                    /\ UNCHANGED <<quits, loading, faults>>
       ELSE /\ UNCHANGED <<quits, loading, faults>>
            /\ IF main_url
               THEN /\ scrapers' = Append(scrapers, [pc |-> "setup",
                                                      h |-> LoadHandle(nloads + 1)])
                    /\ UNCHANGED <<download_items, gen, loaded>>
               ELSE /\ FinishLoad(txt)
                    /\ UNCHANGED scrapers
    /\ UNCHANGED <<config, is_downloading, driver, gui_queue, buttons, fs, workers,
                   stop_quits, warned>>

\* The rest of load_urls of repack.py: scrape_links returns and the session
\* is quit, or it raises and the session stays open.
LoadUrlsScraped(scraped) ==
    /\ loading.active
    /\ \/ /\ quits' = Quit(quits, loading.h)
          /\ FinishLoad(loading.txt \o scraped)
          /\ UNCHANGED faults
       \/ /\ scraped = <<>>
          /\ faults < profile.faults
          /\ faults' = faults + 1
          /\ FinishLoad(loading.txt)
          /\ UNCHANGED quits
    /\ loading' = [active |-> FALSE, h |-> 0, txt |-> <<>>]
    /\ UNCHANGED <<config, is_downloading, driver, gui_queue, buttons, fs, workers,
                   scrapers, nloads, stop_quits, warned>>

\* scrape_worker of richer_gui.py, up to setup_driver.
ScrapeSetup(s) ==
    /\ scrapers[s].pc = "setup"
    /\ \/ /\ CanPut(1)
          /\ quits' = Opened(quits, scrapers[s].h)
          /\ scrapers' = [scrapers EXCEPT ![s].pc = "scrape"]
          /\ gui_queue' = Append(gui_queue, Ev("status", ""))
          /\ UNCHANGED faults
       \/ /\ CanPut(3)
          /\ faults < profile.faults
          /\ faults' = faults + 1
          /\ scrapers' = [scrapers EXCEPT ![s].pc = "done"]
          /\ gui_queue' = gui_queue \o <<Ev("status", ""), Ev("log", "error"),
                                          Ev("status", "")>>
          /\ UNCHANGED quits
    /\ UNCHANGED <<config, download_items, gen, is_downloading, driver, buttons, fs,
                   workers, loading, nloads, loaded, warned, stop_quits>>

\* scrape_worker from scrape_links on: the links are put on gui_queue after
\* the session is quit; when scrape_links raises the session stays open.
ScrapeLinks(s, scraped) ==
    /\ scrapers[s].pc = "scrape"
    /\ scrapers' = [scrapers EXCEPT ![s].pc = "done"]
    /\ \/ /\ CanPut(2)
          /\ quits' = Quit(quits, scrapers[s].h)
          /\ gui_queue' = gui_queue \o
                <<Ev("status", ""),
                  [Ev("scrape_result", "") EXCEPT !.urls = scraped]>>
          /\ UNCHANGED faults
       \/ /\ CanPut(3)
          /\ scraped = <<>>
          /\ faults < profile.faults
          /\ faults' = faults + 1
          /\ gui_queue' = gui_queue \o <<Ev("status", ""), Ev("log", "error"),
                                          Ev("status", "")>>
          /\ UNCHANGED quits
    /\ UNCHANGED <<config, download_items, gen, is_downloading, driver, buttons, fs,
                   workers, loading, nloads, loaded, warned, stop_quits>>

\* A start_downloads without its two tests: a fault the rejection rule
\* detects.
StartUnchecked(output_dir) ==
    /\ ~loading.active
    /\ start_btn
    /\ Len(workers) < profile.runs
    /\ is_downloading' = TRUE
    /\ start_btn' = FALSE
    /\ pause_btn' = TRUE
    /\ stop_btn' = TRUE
    /\ workers' = Append(workers, [pc |-> "start", idx |-> 1, url |-> "", itemGen |-> 0,
                                   dsr |-> 0, existing |-> "none", h |-> 0,
                                   acquired |-> {}, calls |-> <<>>, skipped |-> {},
                                   completes |-> 0, cancelled |-> "no", late |-> FALSE,
                                   cause |-> "none", since |-> 0, checks |-> <<>>,
                                   queued |-> Len(download_items), dir |-> output_dir,
                                   log_calls |-> 0, rechecks |-> <<>>])
    /\ UNCHANGED <<config, download_items, gen, driver, gui_queue, quits, fs, scrapers,
                   loading, nloads, faults, stop_quits, loaded, warned>>

\* start_downloads: rejected with a warning when the queue is empty or no
\* output directory is set (output_dir: whether the field holds one); else
\* the flag is set and a download_worker thread is started (queued, dir:
\* the length of the queue and output_dir at that moment, history).
StartDownloads(output_dir) ==
    /\ MainIdle
    /\ start_btn
    /\ IF download_items = <<>> \/ ~output_dir
       THEN /\ warned' = (warned \/ profile.track)
            /\ UNCHANGED <<is_downloading, buttons, workers>>
       ELSE /\ Len(workers) < profile.runs
            /\ is_downloading' = TRUE
            /\ start_btn' = FALSE
            /\ pause_btn' = TRUE
            /\ stop_btn' = TRUE
            /\ workers' = Append(workers, [NewWorker EXCEPT
                                              !.queued = Len(download_items),
                                              !.dir = output_dir])
            /\ UNCHANGED warned
    /\ UNCHANGED <<config, download_items, gen, driver, gui_queue, quits, fs, scrapers,
                   loading, nloads, faults, stop_quits, loaded>>

\* The flag was cleared while these workers were alive (history).
Cancel(ws, how) == [w \in 1..Len(ws) |->
                      IF ws[w].pc \notin {"done", "dead"}
                      THEN [ws[w] EXCEPT !.cancelled = IF @ = "stop" THEN @ ELSE how]
                      ELSE ws[w]]

\* pause_downloads.
PauseDownloads ==
    /\ MainIdle
    /\ pause_btn
    /\ is_downloading' = FALSE
    /\ pause_btn' = FALSE
    /\ workers' = Cancel(workers, "pause")
    /\ UNCHANGED <<config, download_items, gen, driver, gui_queue, start_btn, stop_btn,
                   quits, fs, scrapers, loading, nloads, loaded, warned, faults, stop_quits>>

\* stop_downloads: the session self.driver refers to is quit at once, and
\* the start button is enabled again.
StopDownloads ==
    /\ MainIdle
    /\ stop_btn
    /\ is_downloading' = FALSE
    /\ quits' = QuitDriver(quits)
    /\ stop_quits' = stop_quits \cup {driver}
    /\ start_btn' = TRUE
    /\ pause_btn' = FALSE
    /\ stop_btn' = FALSE
    /\ workers' = Cancel(workers, "stop")
    /\ UNCHANGED <<config, download_items, gen, driver, gui_queue, fs, scrapers,
                   loading, nloads, loaded, warned, faults>>

\* The fields the handlers of check_queue change.
Gui == [items |-> download_items, gen |-> gen, down |-> is_downloading,
        start |-> start_btn, pause |-> pause_btn, stop |-> stop_btn,
        loaded |-> loaded]

\* on_download_complete.
OnDownloadComplete(st) ==
    [st EXCEPT !.down = FALSE, !.start = TRUE, !.pause = FALSE, !.stop = FALSE]

\* One turn of the loop of check_queue: the handler of a message.
\* repack.py has no branch for scrape_result; the other messages change
\* widgets only.
Handle(st, msg) ==
    IF msg.type = "download_complete" THEN OnDownloadComplete(st)
    ELSE IF msg.type = "scrape_result" /\ variant = "richer"
    THEN [st EXCEPT !.items = NewItems(msg.urls), !.gen = @ + 1,
                    !.loaded = IF profile.track THEN msg.urls ELSE @]
    ELSE st

\* A check_queue that takes one message per call and forgets the rest: a
\* fault the channel rule detects.
DrainHeadOnly(st, q) == IF q = <<>> THEN st ELSE Handle(st, Head(q))

RECURSIVE Drain(_, _)
\* The messages of q handled oldest first.
Drain(st, q) ==
    IF q = <<>> THEN st ELSE Drain(Handle(st, Head(q)), Tail(q))

\* check_queue: the messages on gui_queue are taken and handled until the
\* queue is empty.
CheckQueue ==
    /\ MainIdle
    /\ gui_queue # <<>>
    /\ gui_queue' = <<>>
    /\ LET st == Drain(Gui, gui_queue) IN
       /\ download_items' = st.items
       /\ gen' = st.gen
       /\ is_downloading' = st.down
       /\ start_btn' = st.start
       /\ pause_btn' = st.pause
       /\ stop_btn' = st.stop
       /\ loaded' = st.loaded
    /\ UNCHANGED <<config, driver, quits, fs, workers, scrapers, loading, nloads, faults,
                   stop_quits, warned>>

(***************************************************************************)
(* download_worker.  w is the thread; its pc names the statement it is     *)
(* about to run.  An exception raised inside the try block is handled in   *)
(* the step that raises it: the except clause logs the error and the       *)
(* thread goes on to the finally clause.                                   *)
(***************************************************************************)
\* A write of the worker to its item.  An item that a load has removed
\* from the list is an object nobody else reads.
WriteItem(w, item) ==
    IF Attached(w)
    THEN [download_items EXCEPT ![workers[w].idx] = item]
    ELSE download_items

\* The worker's item as stored (meaningful when Attached).
ItemOf(w) == download_items[workers[w].idx]

\* The session the next setup_driver of worker w returns.
NextHandle(w) == WorkerHandle(w, Cardinality(workers[w].acquired) + 1)

\* The recycle test with > for >=: a fault the recycle rule detects.
RefreshDueLate(w) == workers[w].dsr > session_refresh_var

\* if downloads_since_refresh >= session_refresh
RefreshDue(w) == workers[w].dsr >= session_refresh_var

\* The statement after the skip test, the one after the item is marked and
\* the one after the refresh block: richer_gui.py refreshes the session
\* before it marks the item as downloading, repack.py after.
AfterCheck(w) ==
    IF variant = "richer"
    THEN (IF RefreshDue(w) THEN "refresh" ELSE "mark")
    ELSE "mark"

AfterMark(w) ==
    IF variant = "richer"
    THEN "download"
    ELSE (IF RefreshDue(w) THEN "refresh" ELSE "download")

AfterRefresh == IF variant = "richer" THEN "mark" ELSE "download"

\* An except clause that logs nothing: a fault the fatal-error rule detects.
RaiseUnlogged(ws, w, cause, before) ==
    /\ gui_queue' = gui_queue \o before
    /\ workers' = [ws EXCEPT ![w].pc = "finally", ![w].cause = cause]

\* The worker leaves the try block by an exception: except logs the error
\* (ws: the threads, before: the messages put before the exception).
Raise(ws, w, cause, before) ==
    /\ CanPut(Len(before) + 1)
    /\ gui_queue' = (gui_queue \o before) \o <<Ev("log", "error")>>
    /\ workers' = [ws EXCEPT ![w].pc = "finally", ![w].cause = cause]

\* mkdir of the output directory and the clean-up of temp files (clean:
\* the value of clean_cr_var), which are outside the try block: an OSError
\* ends the thread.
WStart(w, clean) ==
    /\ workers[w].pc = "start"
    /\ \/ /\ clean => CanPut(1)
          /\ workers' = [workers EXCEPT ![w].pc = "setup"]
          /\ gui_queue' = IF clean THEN Append(gui_queue, Ev("log", "info"))
                          ELSE gui_queue
          /\ fs' = IF clean THEN Cleaned(fs) ELSE fs
          /\ UNCHANGED faults
       \/ /\ faults < profile.faults
          /\ faults' = faults + 1
          /\ workers' = [workers EXCEPT ![w].pc = "dead", ![w].cause = "start"]
          /\ UNCHANGED <<gui_queue, fs>>
    /\ UNCHANGED <<config, download_items, gen, is_downloading, driver, buttons, quits,
                   scrapers, loading, nloads, loaded, warned, stop_quits>>

\* self.driver = setup_driver(...); downloads_since_refresh = 0.
WSetup(w) ==
    /\ workers[w].pc = "setup"
    /\ \/ /\ quits' = Opened(quits, NextHandle(w))
          /\ driver' = NextHandle(w)
          /\ workers' = [workers EXCEPT ![w].pc = "loop", ![w].dsr = 0, ![w].since = 0,
                                        ![w].acquired = @ \cup {NextHandle(w)}]
          /\ UNCHANGED <<faults, gui_queue>>
       \/ /\ faults < profile.faults
          /\ faults' = faults + 1
          /\ Raise(workers, w, "setup", <<>>)
          /\ UNCHANGED <<quits, driver>>
    /\ UNCHANGED <<config, download_items, gen, is_downloading, buttons, fs,
                   scrapers, loading, nloads, loaded, warned, stop_quits>>

\* The head of the for loop: the next item of the list, if any, and the
\* test of the flag.  repack.py then reports the status and the progress.
WLoop(w) ==
    /\ workers[w].pc = "loop"
    /\ IF workers[w].idx > Len(download_items) \/ ~is_downloading
       THEN /\ workers' = [workers EXCEPT ![w].pc = "finally"]
            /\ UNCHANGED gui_queue
       ELSE /\ variant = "repack" => CanPut(2)
            /\ workers' = [workers EXCEPT ![w].pc = "check",
                                          ![w].url = download_items[workers[w].idx].url,
                                          ![w].itemGen = gen,
                                          ![w].late = @ \/ workers[w].cancelled # "no"]
            /\ gui_queue' = IF variant = "repack"
                            THEN gui_queue \o <<Ev("status", ""), Ev("progress", "")>>
                            ELSE gui_queue
    /\ UNCHANGED <<config, download_items, gen, is_downloading, driver, buttons, quits,
                   fs, scrapers, loading, nloads, loaded, warned, faults, stop_quits>>

\* A skip that builds the item anew: a fault the frame rule detects.
SkippedAnew(item) ==
    [DownloadItem(item.url) EXCEPT !.status = SKIPPED, !.size = TRUE]

\* item.status = SKIPPED; item.size = os.path.getsize(file_path) / ...
Skipped(item) == [item EXCEPT !.status = SKIPPED, !.size = TRUE]

\* existing = check_file_exists(...) and the skip test.  A skipped item gets
\* its status and the size of the file found, its messages are put and the
\* loop continues; the progress of richer_gui.py divides by
\* len(self.download_items).
WCheck(w) ==
    /\ workers[w].pc = "check"
    /\ LET existing == fs[workers[w].url]
           ws == [workers EXCEPT
                    ![w].existing = existing,
                    ![w].checks = Append(@, [task |-> TaskOf(w), existing |-> existing])]
           msgs == <<Ev("log", "warning"), Ev("update_queue", "")>>
       IN IF SkipTest(existing)
          THEN /\ download_items' = WriteItem(w, Skipped(ItemOf(w)))
               /\ IF variant = "richer" /\ Len(download_items) = 0
                  THEN Raise([ws EXCEPT ![w].skipped = @ \cup {TaskOf(w)}],
                             w, "progress", msgs)
                  ELSE /\ CanPut(IF variant = "richer" THEN 3 ELSE 2)
                       /\ gui_queue' = (gui_queue \o msgs) \o
                             (IF variant = "richer" THEN <<Ev("progress", "")>> ELSE <<>>)
                       /\ workers' = [ws EXCEPT ![w].pc = "loop", ![w].idx = @ + 1,
                                                ![w].skipped = @ \cup {TaskOf(w)}]
          ELSE /\ workers' = [ws EXCEPT ![w].pc = AfterCheck(w)]
               /\ UNCHANGED <<download_items, gui_queue>>
    /\ UNCHANGED <<config, gen, is_downloading, driver, buttons, quits, fs,
                   scrapers, loading, nloads, loaded, warned, faults, stop_quits>>

\* The refresh block: the session self.driver refers to is quit.
WRefresh(w) ==
    /\ workers[w].pc = "refresh"
    /\ CanPut(1)
    /\ gui_queue' = Append(gui_queue, Ev("log", "info"))
    /\ quits' = Quit(quits, driver)
    /\ workers' = [workers EXCEPT ![w].pc = "reacquire"]
    /\ UNCHANGED <<config, download_items, gen, is_downloading, driver, buttons, fs,
                   scrapers, loading, nloads, loaded, warned, faults, stop_quits>>

\* time.sleep(1); self.driver = setup_driver(...); downloads_since_refresh = 0
WReacquire(w) ==
    /\ workers[w].pc = "reacquire"
    /\ \/ /\ quits' = Opened(quits, NextHandle(w))
          /\ driver' = NextHandle(w)
          /\ workers' = [workers EXCEPT ![w].pc = AfterRefresh, ![w].dsr = 0,
                                        ![w].since = 0,
                                        ![w].acquired = @ \cup {NextHandle(w)}]
          /\ UNCHANGED <<faults, gui_queue>>
       \/ /\ faults < profile.faults
          /\ faults' = faults + 1
          /\ Raise(workers, w, "refresh", <<>>)
          /\ UNCHANGED <<quits, driver>>
    /\ UNCHANGED <<config, download_items, gen, is_downloading, buttons, fs,
                   scrapers, loading, nloads, loaded, warned, stop_quits>>

\* item.status = DOWNLOADING; item.start_time = time.time(), and the two
\* messages that announce the download.
WMark(w) ==
    /\ workers[w].pc = "mark"
    /\ CanPut(2)
    /\ download_items' = WriteItem(w, [ItemOf(w) EXCEPT !.status = DOWNLOADING,
                                                        !.start_time = TRUE])
    /\ gui_queue' = gui_queue \o
          (IF variant = "richer"
           THEN <<Ev("status", ""), Ev("update_queue", "")>>
           ELSE <<Ev("update_queue", ""), Ev("log", "info")>>)
    /\ workers' = [workers EXCEPT ![w].pc = AfterMark(w)]
    /\ UNCHANGED <<config, gen, is_downloading, driver, buttons, quits, fs,
                   scrapers, loading, nloads, loaded, warned, faults, stop_quits>>

\* click_download_button(self.driver, item.url, download_dir) is called:
\* the session it works on is the one self.driver refers to now.
WDownload(w) ==
    /\ workers[w].pc = "download"
    /\ workers' = [workers EXCEPT
          ![w].pc = "downloading", ![w].h = driver,
          ![w].calls = Append(@, [task |-> TaskOf(w), res |-> "running"])]
    /\ UNCHANGED <<config, download_items, gen, is_downloading, driver, gui_queue, buttons,
                   quits, fs, scrapers, loading, nloads, loaded, warned, faults, stop_quits>>

\* The item after click_download_button returned True, and after it
\* returned anything else (repack.py also sets item.error).
Completed(item) == [item EXCEPT !.status = COMPLETED]

\* A False result that leaves the status alone: a fault the failure rule
\* detects.
FailedUnset(item) == item

\* The else branch of file v.
FailedIn(v, item) ==
    [item EXCEPT !.status = FAILED,
                 !.error = IF v = "repack" THEN TRUE ELSE @]

Failed(item) == FailedIn(variant, item)

\* A counter that counts every result: a fault the counter rule detects.
CountedAlways(dsr, result) == dsr + 1

\* downloads_since_refresh after a result: += 1 in the branch of True only.
Counted(dsr, result) == IF result THEN dsr + 1 ELSE dsr

\* A second look for the file after every result: a fault the query count
\* detects.
AfterResultAlways(result) == "resolve"

\* The statement after the result: the branch of True looks for the file,
\* the else branch goes to the end of the iteration.
AfterResult(result) == IF result THEN "resolve" ELSE "end"

\* The result of the call in progress is recorded (history).
Returned(w, res) ==
    [workers EXCEPT ![w].h = 0, ![w].calls[Len(workers[w].calls)].res = res]

\* click_download_button returns and the result is recorded.  True (the
\* finished file is there, or the directory is as it was): status COMPLETED
\* and the counter; anything else: status FAILED and the error message; or
\* it raises.
WReturn(w) ==
    /\ workers[w].pc = "downloading"
    /\ \/ /\ download_items' = WriteItem(w, Completed(ItemOf(w)))
          /\ workers' = [Returned(w, "true") EXCEPT ![w].pc = AfterResult(TRUE),
                                                    ![w].dsr = Counted(@, TRUE),
                                                    ![w].since = @ + 1]
          /\ \E left \in {".rar", fs[workers[w].url]} :
                fs' = [fs EXCEPT ![workers[w].url] = left]
          /\ UNCHANGED <<faults, gui_queue>>
       \/ /\ CanPut(1)
          /\ download_items' = WriteItem(w, Failed(ItemOf(w)))
          /\ gui_queue' = Append(gui_queue, Ev("log", "error"))
          /\ workers' = [Returned(w, "false") EXCEPT ![w].pc = AfterResult(FALSE),
                                                     ![w].dsr = Counted(@, FALSE)]
          /\ UNCHANGED <<fs, faults>>
       \/ /\ faults < profile.faults
          /\ faults' = faults + 1
          /\ Raise(Returned(w, "raise"), w, "download", <<>>)
          /\ UNCHANGED <<fs, download_items>>
    /\ UNCHANGED <<config, gen, is_downloading, driver, buttons,
                   quits, scrapers, loading, nloads, loaded, warned, stop_quits>>

\* A digest that cannot be computed makes the task Failed: a fault the
\* checksum rule detects.
VerifiedOrFailed(item, verify, ok) ==
    [item EXCEPT !.size = TRUE,
                 !.checksum = IF verify THEN ok ELSE @,
                 !.status = IF verify /\ ~ok THEN FAILED ELSE @]

\* The item after the size of the file found is written and, when the
\* checksum is asked for, the result of calculate_checksum: the digest, or
\* None when the file could not be read.
Verified(item, verify, ok) ==
    [item EXCEPT !.size = TRUE,
                 !.checksum = IF verify THEN ok ELSE @]

\* downloaded = check_file_exists(...): the size, and the digest when the
\* checksum is asked for (verify: the value of checksum_var; ok: whether
\* calculate_checksum could read the file).  calculate_checksum catches the
\* exception of a file it cannot read, calls self.log in the thread of the
\* worker and returns None.
WResolve(w, verify, ok) ==
    /\ workers[w].pc = "resolve"
    /\ LET found == fs[workers[w].url] # "none"
           msgs == (IF found /\ verify THEN <<Ev("log", "info")>> ELSE <<>>) \o
                   (IF found \/ variant = "repack"
                    THEN <<Ev("log", "success")>> ELSE <<>>)
       IN /\ ~ok => (found /\ verify /\ faults < profile.faults)
          /\ CanPut(Len(msgs))
          /\ faults' = IF ok THEN faults ELSE faults + 1
          /\ download_items' =
                IF found
                THEN WriteItem(w, Verified(ItemOf(w), verify, ok))
                ELSE download_items
          /\ gui_queue' = gui_queue \o msgs
    /\ workers' = [workers EXCEPT ![w].pc = "end",
                                  ![w].rechecks = Append(@, TaskOf(w)),
                                  ![w].log_calls = IF ok THEN @ ELSE @ + 1]
    /\ UNCHANGED <<config, gen, is_downloading, driver, buttons, quits, fs, scrapers,
                   loading, nloads, loaded, warned, stop_quits>>

\* An end of iteration that leaves the timestamp unset: a fault the
\* ordering rule detects.
EndedUnset(item) == item

\* item.end_time = time.time()
Ended(item) == [item EXCEPT !.end_time = TRUE]

\* item.end_time = time.time() and the messages at the end of an iteration;
\* richer_gui.py computes the progress (a division by
\* len(self.download_items)), repack.py sleeps.
WEnd(w) ==
    /\ workers[w].pc = "end"
    /\ download_items' = WriteItem(w, Ended(ItemOf(w)))
    /\ LET msgs == <<Ev("update_queue", ""), Ev("update_stats", "")>> IN
       IF variant = "richer" /\ Len(download_items) = 0
       THEN Raise(workers, w, "progress", msgs)
       ELSE /\ CanPut(IF variant = "richer" THEN 3 ELSE 2)
            /\ gui_queue' = (gui_queue \o msgs) \o
                  (IF variant = "richer" THEN <<Ev("progress", "")>> ELSE <<>>)
            /\ workers' = [workers EXCEPT ![w].pc = "loop", ![w].idx = @ + 1]
    /\ UNCHANGED <<config, gen, is_downloading, driver, buttons, quits,
                   fs, scrapers, loading, nloads, loaded, warned, faults, stop_quits>>

\* finally: if self.driver: self.driver.quit()
WFinally(w) ==
    /\ workers[w].pc = "finally"
    /\ quits' = QuitDriver(quits)
    /\ workers' = [workers EXCEPT ![w].pc = "complete"]
    /\ UNCHANGED <<config, download_items, gen, is_downloading, driver, gui_queue, buttons,
                   fs, scrapers, loading, nloads, loaded, warned, faults, stop_quits>>

\* self.gui_queue.put(('download_complete', None)): the thread ends.
WComplete(w) ==
    /\ workers[w].pc = "complete"
    /\ CanPut(1)
    /\ gui_queue' = Append(gui_queue, Ev("download_complete", ""))
    /\ workers' = [workers EXCEPT ![w].pc = "done", ![w].completes = @ + 1]
    /\ UNCHANGED <<config, download_items, gen, is_downloading, driver, buttons, quits,
                   fs, scrapers, loading, nloads, loaded, warned, faults, stop_quits>>

Worker(w) ==
    \/ \E clean \in BOOLEAN : WStart(w, clean)
    \/ WSetup(w)
    \/ WLoop(w)
    \/ WCheck(w)
    \/ WRefresh(w)
    \/ WReacquire(w)
    \/ WMark(w)
    \/ WDownload(w)
    \/ WReturn(w)
    \/ \E verify \in BOOLEAN, ok \in BOOLEAN : WResolve(w, verify, ok)
    \/ WEnd(w)
    \/ WFinally(w)
    \/ WComplete(w)

Next ==
    \/ \E txt \in InputSeqs, main_url \in BOOLEAN : LoadUrls(txt, main_url)
    \/ \E scraped \in InputSeqs : LoadUrlsScraped(scraped)
    \/ \E s \in 1..Len(scrapers) : ScrapeSetup(s)
    \/ \E s \in 1..Len(scrapers), scraped \in InputSeqs : ScrapeLinks(s, scraped)
    \/ \E output_dir \in BOOLEAN : StartDownloads(output_dir)
    \/ PauseDownloads
    \/ StopDownloads
    \/ CheckQueue
    \/ \E w \in 1..Len(workers) : Worker(w)

Spec == Init /\ [][Next]_vars

(***************************************************************************)
(* Properties.                                                             *)
(***************************************************************************)
Threads == 1..Len(workers)

\* The tasks worker w called click_download_button for.
CallTasks(w) == {workers[w].calls[i].task : i \in DOMAIN workers[w].calls}

\* The task is an element of the list as it is now.
InList(t) == t.g = gen /\ t.i <= Len(download_items)

\* What the oracle reports is a finished artifact: there is a file and its
\* name does not end in a partial suffix.
NonPartial(existing) == existing \notin ({"none"} \cup PartialSuffixes)

\* C1: skip rule.  When check_file_exists reports a non-partial artifact at
\* a task's turn, download_worker sets the task to Skipped, continues with
\* the next item, and the thread never calls click_download_button for it:
\* a thread is past the skip test only with no artifact or a partial one,
\* and no task a thread skipped is among its calls.
C1_SkipRule ==
    /\ [](\A w \in Threads :
            /\ \A t \in workers[w].skipped : t \notin CallTasks(w)
            /\ (workers[w].pc \in {"refresh", "reacquire", "mark", "download", "downloading"}
                  => ~NonPartial(workers[w].existing)))
    /\ [][\A w \in Threads :
            (/\ workers[w].pc = "check"
             /\ workers'[w].pc # "check"
             /\ NonPartial(fs[workers[w].url]))
            => /\ TaskOf(w) \in workers'[w].skipped
               /\ workers'[w].calls = workers[w].calls
               /\ workers'[w].pc \in {"loop", "finally"}
               /\ (Attached(w) => download_items'[workers[w].idx].status = SKIPPED)]_vars

\* A thread has ended after it skipped a task, whose status is Skipped.
C1_Witness ==
    \E w \in Threads :
        /\ workers[w].pc = "done"
        /\ \E t \in workers[w].skipped :
              InList(t) /\ download_items[t.i].status = SKIPPED

\* C2: a call of click_download_button that raises makes its task Failed
\* with the failure detail set, and the worker goes on to the next task.
C2_RaiseIsTaskFailure ==
    \A w \in Threads : \A i \in DOMAIN workers[w].calls :
        LET c == workers[w].calls[i] IN
        c.res = "raise"
        => /\ (InList(c.task) => /\ download_items[c.task.i].status = FAILED
                                 /\ download_items[c.task.i].error)
           /\ (workers[w].pc \in {"finally", "complete", "done"}
                 => workers[w].idx > c.task.i)

\* C3: a call of click_download_button that returns False makes its task
\* Failed and the worker goes on with the end of the iteration and the next
\* item (the progress of richer_gui.py can raise on a list a load has
\* emptied); no thread calls click_download_button twice for a task; and
\* the only run on a list of two items, with False for the first and True
\* for the second, ends with Failed, Completed and one download_complete
\* after no exception.
C3_FalseIsFailedNoRetry ==
    /\ [](\A w \in Threads : \A i, j \in DOMAIN workers[w].calls :
            i # j => workers[w].calls[i].task # workers[w].calls[j].task)
    /\ [][\A w \in Threads :
            /\ (/\ workers[w].pc = "downloading"
                /\ workers'[w].pc # "downloading"
                /\ workers'[w].calls[Len(workers[w].calls)].res = "false")
               => /\ workers'[w].pc = "end"
                  /\ Len(workers'[w].calls) = Len(workers[w].calls)
                  /\ (Attached(w) => download_items'[workers[w].idx].status = FAILED)
            /\ (workers[w].pc = "end" /\ workers'[w].pc # "end")
               => \/ workers'[w].pc = "loop" /\ workers'[w].idx = workers[w].idx + 1
                  \/ workers'[w].cause = "progress"
            /\ (/\ workers[w].pc = "complete"
                /\ workers'[w].pc = "done"
                /\ Len(workers) = 1
                /\ Len(download_items) = 2
                /\ Len(workers[w].calls) = 2
                /\ workers[w].calls[1] = [task |-> [g |-> gen, i |-> 1], res |-> "false"]
                /\ workers[w].calls[2] = [task |-> [g |-> gen, i |-> 2], res |-> "true"])
               => /\ download_items'[1].status = FAILED
                  /\ download_items'[2].status = COMPLETED
                  /\ workers'[w].completes = 1
                  /\ workers'[w].cause = "none"]_vars

\* The run on two items has ended: False for the first, True for the second.
C3_Witness ==
    \E w \in Threads :
        /\ workers[w].pc = "done"
        /\ Len(workers[w].calls) = 2
        /\ workers[w].calls[1].res = "false"
        /\ workers[w].calls[2].res = "true"
        /\ Len(download_items) = 2
        /\ download_items[1].status = FAILED
        /\ download_items[2].status = COMPLETED

\* C4: the session stop_downloads quits is released exactly once over the
\* whole run: the finally block of the worker does not quit it again.
C4_StopReleasesOnce ==
    \A h \in stop_quits \ {0} : quits[h] = 1

\* C5: when stop_downloads was never called and no external operation
\* raised, no session a worker set up is quit twice, and once the worker
\* has put download_complete every session it set up (the first one and
\* those of the refresh block) has been quit exactly once.
C5_ReleasedExactlyOnce ==
    (stop_quits = {} /\ faults = 0)
    => \A w \in Threads : \A h \in workers[w].acquired :
          /\ quits[h] <= 1
          /\ (workers[w].completes >= 1 => quits[h] = 1)

\* A paused run with a refresh has ended: both sessions were quit once.
C5_Witness ==
    /\ stop_quits = {}
    /\ faults = 0
    /\ \E w \in Threads :
          /\ workers[w].completes = 1
          /\ workers[w].cancelled = "pause"
          /\ Cardinality(workers[w].acquired) = 2
          /\ \A h \in workers[w].acquired : quits[h] = 1

\* C6: at most one download_worker thread is alive at any time.
C6_OneWorkerAlive == Cardinality(AliveWorkers) <= 1

\* C7: once pause_downloads or stop_downloads has cleared the flag while a
\* worker is alive, that worker takes no further task.
C7_NoTaskAfterCancel ==
    \A w \in Threads : ~workers[w].late

\* C8: a download_worker thread that has ended, on whatever path, has put
\* exactly one download_complete.
C8_OneRunFinished ==
    \A w \in Threads : ~Alive(w) => workers[w].completes = 1

\* C9: at most one session is open at any time.
C9_OneHandleOpen == Cardinality(OpenHandles) <= 1

\* C10: the session a call of click_download_button works on is open: it
\* was not quit before the call and is not quit while the call is in
\* progress.
C10_HandleWorkerOnly ==
    \A w \in Threads : workers[w].h # 0 => quits[workers[w].h] = 0

\* C11: recycle threshold.  A worker is in the refresh block only when
\* session_refresh tasks have reached Completed since its last
\* setup_driver, and it calls click_download_button only when fewer have:
\* so the attempt after the threshold is reached is preceded by the refresh
\* block.  The refresh block calls quit() once, on the session self.driver
\* refers to, then setup_driver returns one new session and the counter is
\* 0 (or setup_driver raises).  The counter is the number of Completed
\* results since the last setup_driver.
C11_RecycleThreshold ==
    /\ [](\A w \in Threads :
            /\ workers[w].dsr = workers[w].since
            /\ (workers[w].pc \in {"refresh", "reacquire"}
                  => workers[w].since >= session_refresh_var)
            /\ (workers[w].pc \in {"download", "downloading"}
                  => workers[w].since < session_refresh_var))
    /\ [][\A w \in Threads :
            /\ (workers[w].pc = "refresh" /\ workers'[w].pc # "refresh")
               => /\ workers'[w].pc = "reacquire"
                  /\ DOMAIN quits' = DOMAIN quits
                  /\ quits'[driver] = IF quits[driver] = 0 THEN 1 ELSE 2
                  /\ \A h \in DOMAIN quits \ {driver} : quits'[h] = quits[h]
            /\ (workers[w].pc = "reacquire" /\ workers'[w].pc # "reacquire")
               => \/ /\ Cardinality(DOMAIN quits' \ DOMAIN quits) = 1
                     /\ driver' \in DOMAIN quits' \ DOMAIN quits
                     /\ \A h \in DOMAIN quits : quits'[h] = quits[h]
                     /\ workers'[w].dsr = 0
                     /\ workers'[w].pc \in {"mark", "download"}
                  \/ /\ workers'[w].cause = "refresh"
                     /\ quits' = quits]_vars

\* A worker calls click_download_button on the session of a refresh: the
\* first session served session_refresh Completed tasks and was quit once.
C11_Witness ==
    \E w \in Threads :
        /\ workers[w].pc = "downloading"
        /\ Cardinality(workers[w].acquired) = 2
        /\ Len(workers[w].calls) = session_refresh_var + 1
        /\ quits[WorkerHandle(w, 1)] = 1
        /\ quits[WorkerHandle(w, 2)] = 0

\* C12: a task for which check_file_exists reported a name ending in
\* .crdownload, .part or .tmp is not skipped.
C12_PartialNotSkipped ==
    \A w \in Threads : \A i \in DOMAIN workers[w].checks :
        workers[w].checks[i].existing \in TempSuffixes
        => workers[w].checks[i].task \notin workers[w].skipped

\* The urls of the items of a list, in order.
UrlsOf(items) == [i \in DOMAIN items |-> items[i].url]

\* The place of the first occurrence of u in urls.
FirstAt(urls, u) ==
    CHOOSE i \in DOMAIN urls : urls[i] = u /\ \A j \in 1..(i - 1) : urls[j] # u

\* out holds each url of urls exactly once, in the order of first occurrence.
IsDedupOf(out, urls) ==
    /\ \A i \in DOMAIN out : \E j \in DOMAIN urls : urls[j] = out[i]
    /\ \A j \in DOMAIN urls : Cardinality({i \in DOMAIN out : out[i] = urls[j]}) = 1
    /\ \A i, k \in DOMAIN out : i < k => FirstAt(urls, out[i]) < FirstAt(urls, out[k])

\* C13: load deduplicates.  For every input the items built hold each url
\* once in the order of first occurrence; where the urls given to the loads
\* are recorded, the list holds the urls it was last filled from in that
\* way; a step that does not fill the list leaves its urls alone; and every
\* item of a list that has just been filled is Pending with nothing else
\* set.
C13_LoadDeduplicates ==
    /\ [](/\ \A urls \in InputSeqs : IsDedupOf(UrlsOf(NewItems(urls)), urls)
          /\ (profile.track => IsDedupOf(UrlsOf(download_items), loaded)))
    /\ [][/\ gen' = gen => UrlsOf(download_items') = UrlsOf(download_items)
          /\ gen' # gen
               => \A i \in DOMAIN download_items' :
                     /\ download_items'[i] = DownloadItem(download_items'[i].url)
                     /\ download_items'[i].status = PENDING]_vars

\* A list filled from urls with a repetition between two distinct urls.
C13_Witness ==
    /\ Len(loaded) = 3
    /\ loaded[1] = loaded[3]
    /\ loaded[1] # loaded[2]
    /\ UrlsOf(download_items) = <<loaded[1], loaded[2]>>

\* C14: while a download_worker thread is alive the list is not cleared or
\* refilled: the list the thread took its last task from is the list as it
\* is now.
C14_NoLoadDuringRun ==
    \A w \in Threads :
        (Alive(w) /\ workers[w].itemGen # 0) => workers[w].itemGen = gen

\* The worker has written the status of the result to its item, which is
\* in the list, and not yet the size, the digest or the end timestamp.
MidWrite(w) == workers[w].pc \in {"resolve", "end"} /\ Attached(w)

\* C15: when check_queue handles an update_queue or update_stats message
\* (and reads the list), no worker is in the middle of writing an item.
C15_NoTornRead ==
    [][(/\ gui_queue # <<>>
        /\ gui_queue' = <<>>
        /\ \E i \in DOMAIN gui_queue : gui_queue[i].type \in {"update_queue", "update_stats"})
       => \A w \in Threads : ~MidWrite(w)]_vars

\* The places of the messages of a type on the queue.
Places(q, type) == {i \in DOMAIN q : q[i].type = type}

\* The greatest element of a non-empty set of numbers.
Last(S) == CHOOSE i \in S : \A j \in S : j <= i

C17_StartRejected ==
    /\ [](\A w \in Threads : workers[w].dir /\ workers[w].queued >= 1)
    /\ [][/\ download_items = <<>>
             => Len(workers') = Len(workers) /\ (is_downloading' => is_downloading)
          /\ warned' # warned
             => UNCHANGED <<download_items, gen, is_downloading, driver, gui_queue,
                            start_btn, pause_btn, stop_btn, quits, fs, workers,
                            scrapers, loading, nloads, faults, stop_quits>>]_vars

\* start_downloads has shown its warning and nothing runs.
C17_Witness ==
    /\ warned
    /\ workers = <<>>
    /\ ~is_downloading
    /\ quits = <<>>
    /\ gui_queue = <<>>

\* setup_driver raised in this worker, at its start or in the refresh block.
AcquireFailed(w) == workers[w].cause \in {"setup", "refresh"}

\* C18: when setup_driver raises, at the start of the run or in the refresh
\* block, the worker puts exactly one error log message for it, goes to its
\* finally block and ends with one download_complete; from then on it writes
\* no item and puts nothing but download_complete.  In the only run of the
\* program the items after the current one are Pending (all items, when
\* the first setup_driver raised).
C18_AcquireFailureFatal ==
    /\ [](\A w \in Threads :
            AcquireFailed(w)
            => /\ workers[w].pc \in {"finally", "complete", "done"}
               /\ (workers[w].pc = "done" <=> workers[w].completes = 1)
               /\ Len(workers[w].calls) < workers[w].idx
               /\ (Len(workers) = 1
                     => \A i \in DOMAIN download_items :
                           (i > workers[w].idx \/ workers[w].cause = "setup")
                           => download_items[i].status = PENDING))
    /\ [][\A w \in Threads :
            /\ (~AcquireFailed(w) /\ workers'[w].cause \in {"setup", "refresh"})
               => /\ gui_queue' = Append(gui_queue, Ev("log", "error"))
                  /\ UNCHANGED download_items
            /\ (AcquireFailed(w) /\ workers'[w].pc # workers[w].pc)
               => /\ UNCHANGED download_items
                  /\ \/ UNCHANGED gui_queue
                     \/ /\ gui_queue' = Append(gui_queue, Ev("download_complete", ""))
                        /\ workers'[w].pc = "done"]_vars

\* A run has ended after setup_driver raised in the refresh block.
C18_Witness ==
    \E w \in Threads :
        /\ workers[w].cause = "refresh"
        /\ workers[w].pc = "done"
        /\ workers[w].completes = 1
        /\ Len(workers[w].calls) = 1

\* The only run of the program has ended: it was never cancelled, no
\* external operation raised, and its worker visited every item of the
\* list, which no load has refilled since.
Uninterrupted(w) ==
    /\ Len(workers) = 1
    /\ workers[w].pc = "done"
    /\ workers[w].cancelled = "no"
    /\ workers[w].cause = "none"
    /\ faults = 0
    /\ Len(workers[w].checks) = Len(download_items)
    /\ \A i \in DOMAIN download_items : workers[w].checks[i].task = [g |-> gen, i |-> i]

\* The results of the calls of click_download_button of w for the i-th item.
ResultsFor(w, i) ==
    {workers[w].calls[k].res : k \in {k \in DOMAIN workers[w].calls :
                                          workers[w].calls[k].task.i = i}}

\* C19: outcome of an uninterrupted run.  Every task is Skipped iff
\* check_file_exists reported an artifact that is not partial (.crdownload,
\* .part, .tmp) at its turn, else Completed iff click_download_button
\* returned True and Failed iff it returned False; click_download_button
\* was called once for each task not skipped, in queue order.
C19_UninterruptedOutcome ==
    \A w \in Threads :
        Uninterrupted(w)
        => /\ \A i \in DOMAIN download_items :
                LET existed == workers[w].checks[i].existing \notin ({"none"} \cup TempSuffixes)
                    status == download_items[i].status
                IN /\ status \in {SKIPPED, COMPLETED, FAILED}
                   /\ status = SKIPPED <=> existed
                   /\ status = COMPLETED <=> (~existed /\ ResultsFor(w, i) = {"true"})
                   /\ status = FAILED <=> (~existed /\ ResultsFor(w, i) = {"false"})
                   /\ Cardinality({k \in DOMAIN workers[w].calls :
                                      workers[w].calls[k].task.i = i})
                        = IF existed THEN 0 ELSE 1
           /\ \A k, l \in DOMAIN workers[w].calls :
                k < l => workers[w].calls[k].task.i < workers[w].calls[l].task.i

\* The edges of the task state machine.
Edges ==
    {<<PENDING, SKIPPED>>, <<PENDING, DOWNLOADING>>,
     <<DOWNLOADING, COMPLETED>>, <<DOWNLOADING, FAILED>>}

\* C20: every change of the status of an item of the list follows an edge
\* of the task state machine (so that a status Completed, Failed or Skipped
\* does not change again), and no worker calls click_download_button or
\* skips for a task it has visited before.
C20_TaskStateMachine ==
    [][/\ gen' = gen
          => \A i \in DOMAIN download_items :
                download_items'[i].status # download_items[i].status
                => <<download_items[i].status, download_items'[i].status>> \in Edges
       /\ \A w \in Threads :
             Len(workers'[w].checks) > Len(workers[w].checks)
             => \A k \in DOMAIN workers[w].checks :
                   workers[w].checks[k].task # workers'[w].checks[Len(workers'[w].checks)].task]_vars

\* The terminal states of a task.
Terminal == {COMPLETED, FAILED, SKIPPED}

\* No worker is between the skip test and the end of an iteration.
BetweenTasks ==
    \A w \in Threads :
        workers[w].pc \in {"start", "setup", "loop", "finally", "complete", "done", "dead"}

\* C21: every item whose status is Completed, Failed or Skipped has its end
\* timestamp set (stated for the states in which no worker is in the middle
\* of an iteration: there the status and the timestamp of a downloaded task
\* are both written).
C21_TerminalHasEndTime ==
    BetweenTasks
    => \A i \in DOMAIN download_items :
          download_items[i].status \in Terminal => download_items[i].end_time

\* C22: the failure detail of an item is set exactly when its status is
\* Failed.
C22_ErrorIffFailed ==
    \A i \in DOMAIN download_items :
        download_items[i].error <=> download_items[i].status = FAILED

\* C23: self.driver refers to a session only while a run is in progress:
\* when no download_worker thread is alive (before the first
\* start_downloads, and after each thread has put its download_complete) it
\* is None.
C23_DriverOnlyWhileRunning ==
    AliveWorkers = {} => driver = 0

\* C24: gui_queue is the only output of the worker: a download_worker
\* thread never calls self.log (which writes the log widget) itself, also
\* not for a file calculate_checksum cannot read.
C24_WorkerWritesChannelOnly ==
    \A w \in Threads : workers[w].log_calls = 0

\* C25: a file calculate_checksum cannot read does not downgrade its task.
\* In the step in which the worker gets None from calculate_checksum the
\* status of the item stays Completed and its digest is unset, nothing is
\* raised and the worker is at the end of the iteration; it then writes the
\* end timestamp and goes to the head of the loop with the next index (the
\* progress of richer_gui.py can raise on a list a load has emptied), where
\* it takes the next item if there is one and the flag is set.
C25_ChecksumErrorKeepsCompleted ==
    [][\A w \in Threads :
          /\ workers'[w].log_calls > workers[w].log_calls
             => /\ workers[w].pc = "resolve"
                /\ workers'[w].pc = "end"
                /\ workers'[w].cause = "none"
                /\ workers'[w].calls[Len(workers'[w].calls)].res = "true"
                /\ (Attached(w)
                      => /\ download_items[workers[w].idx].status = COMPLETED
                         /\ download_items'[workers[w].idx].status = COMPLETED
                         /\ ~download_items'[workers[w].idx].checksum)
          /\ (workers[w].log_calls > 0 /\ workers[w].pc = "end" /\ workers'[w].pc # "end")
             => \/ workers'[w].pc = "loop" /\ workers'[w].idx = workers[w].idx + 1
                \/ workers'[w].cause = "progress"
          /\ (/\ workers[w].log_calls > 0
              /\ workers[w].pc = "loop"
              /\ workers'[w].pc # "loop"
              /\ workers[w].idx <= Len(download_items)
              /\ is_downloading)
             => workers'[w].pc = "check"]_vars

\* A run has ended in which the digest of the first task could not be
\* computed: the task is Completed with no digest and the second task was
\* attempted (and failed).
C25_Witness ==
    \E w \in Threads :
        /\ workers[w].pc = "done"
        /\ workers[w].log_calls = 1
        /\ workers[w].cause = "none"
        /\ Len(workers[w].calls) = 2
        /\ workers[w].calls[1].res = "true"
        /\ workers[w].calls[2].res = "false"
        /\ Len(download_items) = 2
        /\ download_items[1].status = COMPLETED
        /\ ~download_items[1].checksum
        /\ download_items[1].end_time
        /\ download_items[2].status = FAILED

\* C26: when every download_worker thread that was started has put its
\* download_complete, no item of the list is left Downloading.
C26_NoDownloadingAtFinish ==
    (workers # <<>> /\ \A w \in Threads : workers[w].pc = "done")
    => \A i \in DOMAIN download_items : download_items[i].status # DOWNLOADING

\* C27: when an exception ended the run of a worker and stop_downloads was
\* never called, no session the worker set up has been quit twice, and once
\* the worker has put download_complete each has been quit exactly once.
C27_TeardownReleasesOnce ==
    \A w \in Threads :
        (workers[w].cause # "none" /\ stop_quits = {})
        => \A h \in workers[w].acquired :
              /\ quits[h] <= 1
              /\ (workers[w].pc = "done" => quits[h] = 1)

\* The step puts an update_queue message on gui_queue.
PutsUpdateQueue ==
    /\ Len(gui_queue') > Len(gui_queue)
    /\ \E i \in (Len(gui_queue) + 1)..Len(gui_queue') : gui_queue'[i].type = "update_queue"

\* The result of the last call of click_download_button of worker w.
LastResult(w) == workers[w].calls[Len(workers[w].calls)].res

\* C28: every write to an item comes before the update_queue that announces
\* it.  A step that puts an update_queue is a step of a worker at the skip
\* test, at the marking of its item or at the end of an iteration, and once
\* it is taken the item of that worker (where it is still in the list)
\* holds what is announced: Skipped and the size; Downloading and the start
\* timestamp; the end timestamp.  The status of a result (Completed for
\* True, Failed for anything else) and the size of the file found were
\* written in earlier steps: they are in the item of the only worker of the
\* program whenever it is at the end of an iteration.
C28_MutationBeforeEvent ==
    /\ [](\A w \in Threads :
            (workers[w].pc = "end" /\ Len(workers) = 1 /\ Attached(w))
            => /\ LastResult(w) \in {"true", "false"}
               /\ ItemOf(w).status = IF LastResult(w) = "true" THEN COMPLETED ELSE FAILED
               /\ ItemOf(w).start_time
               /\ (LastResult(w) = "true" /\ fs[workers[w].url] # "none")
                     => ItemOf(w).size)
    /\ [][PutsUpdateQueue
          => \E w \in Threads :
                /\ workers'[w].pc # workers[w].pc
                /\ workers[w].pc \in {"check", "mark", "end"}
                /\ Attached(w)
                     => LET item == download_items'[workers[w].idx] IN
                        /\ workers[w].pc = "check" => item.status = SKIPPED /\ item.size
                        /\ workers[w].pc = "mark"
                             => item.status = DOWNLOADING /\ item.start_time
                        /\ workers[w].pc = "end" => item.end_time]_vars

\* The update_queue of a finished download is on gui_queue, not yet taken:
\* the item is Completed with its size and its end timestamp.
C28_Witness ==
    /\ \E i \in DOMAIN gui_queue : gui_queue[i].type = "update_queue"
    /\ \E w \in Threads :
          /\ workers[w].pc = "loop"
          /\ workers[w].idx = 2
          /\ Len(workers[w].calls) = 1
          /\ LastResult(w) = "true"
          /\ workers[w].itemGen = gen
          /\ download_items[1].status = COMPLETED
          /\ download_items[1].size
          /\ download_items[1].end_time

\* C29: cancellation is not preemptive.  A call of click_download_button
\* that is in progress while pause_downloads has cleared the flag ends with
\* its task Completed or Failed, and the worker goes on with the rest of the
\* iteration (the end timestamp, update_queue, update_stats) before it
\* tests the flag again.
C29_PauseNonPreemptive ==
    [][\A w \in Threads :
          (/\ workers[w].pc = "downloading"
           /\ workers[w].cancelled = "pause"
           /\ ~is_downloading
           /\ workers'[w].pc # "downloading")
          => /\ workers'[w].pc \in {"resolve", "end"}
             /\ (Attached(w)
                   => download_items'[workers[w].idx].status \in {COMPLETED, FAILED})]_vars

\* The calls of click_download_button of worker w that returned True.
TrueCalls(w) == {i \in DOMAIN workers[w].calls : workers[w].calls[i].res = "true"}

C31_RecycleBeforeMark ==
    [][\A w \in Threads :
          /\ (workers[w].pc = "reacquire" /\ workers'[w].pc # "reacquire")
             => workers'[w].pc \in {"mark", "finally"}
          /\ (workers[w].pc = "mark" /\ workers'[w].pc # "mark")
             => workers'[w].pc = "download"]_vars

\* C32: check_queue handles a download_complete (on_download_complete
\* clears the flag and enables the start button) only when no
\* download_worker thread is alive.
C32_NoStaleRunFinished ==
    [][(gui_queue' = <<>> /\ Places(gui_queue, "download_complete") # {})
       => AliveWorkers = {}]_vars

\* C33: while a worker that pause_downloads has paused is alive (and
\* stop_downloads has not run since), the start button stays disabled and
\* the flag stays cleared.
C33_PauseKeepsStartDisabled ==
    \A w \in Threads :
        (Alive(w) /\ workers[w].cancelled = "pause")
        => ~start_btn /\ ~is_downloading

\* Worker w ran after the worker before it had ended with every call
\* returning True, was never cancelled, and has ended after it visited every
\* item of the list, check_file_exists reporting a finished file each time;
\* stop_downloads was never called.
Rerun(w) ==
    /\ w > 1
    /\ stop_quits = {}
    /\ workers[w - 1].pc = "done"
    /\ workers[w - 1].cancelled = "no"
    /\ \A k \in DOMAIN workers[w - 1].calls : workers[w - 1].calls[k].res = "true"
    /\ workers[w].pc = "done"
    /\ workers[w].cancelled = "no"
    /\ Len(workers[w].checks) = Len(download_items)
    /\ \A i \in DOMAIN download_items :
          /\ workers[w].checks[i].task = [g |-> gen, i |-> i]
          /\ workers[w].checks[i].existing \notin ({"none"} \cup TempSuffixes)

\* C34: a re-run is idempotent.  A second run on a queue whose tasks all
\* have a finished file calls click_download_button for no task, sets up one
\* session and quits it once, never enters the refresh block, and ends with
\* every item Skipped and one download_complete.
C34_RerunIdempotent ==
    \A w \in Threads :
        Rerun(w)
        => /\ workers[w].calls = <<>>
           /\ Cardinality(workers[w].acquired) = 1
           /\ \A h \in workers[w].acquired : quits[h] = 1
           /\ workers[w].cause = "none"
           /\ workers[w].completes = 1
           /\ \A i \in DOMAIN download_items :
                 /\ download_items[i].status = SKIPPED
                 /\ [g |-> gen, i |-> i] \in workers[w].skipped

\* The second run has ended with the task Skipped that the first run had
\* downloaded.
C34_Witness ==
    \E w \in Threads :
        /\ Rerun(w)
        /\ workers[w - 1].calls # <<>>
        /\ download_items # <<>>
        /\ download_items[1].status = SKIPPED
        /\ download_items[1].start_time

\* C35: the skip changes the status and the size of its item and nothing
\* else.  In the step in which a worker skips a task, the other fields of
\* the item and the other items are as they were, self.driver and every
\* session are untouched, the worker sets up no session and its counter is
\* unchanged; an update_queue is put, and the worker is at the head of the
\* loop with the next index (the progress of richer_gui.py can raise on a
\* list a load has emptied).
C35_SkipFrame ==
    [][\A w \in Threads :
          workers'[w].skipped # workers[w].skipped
          => /\ workers[w].pc = "check"
             /\ UNCHANGED <<driver, quits, fs, is_downloading, gen>>
             /\ workers'[w].dsr = workers[w].dsr
             /\ workers'[w].acquired = workers[w].acquired
             /\ workers'[w].calls = workers[w].calls
             /\ PutsUpdateQueue
             /\ \/ workers'[w].pc = "loop" /\ workers'[w].idx = workers[w].idx + 1
                \/ workers'[w].cause = "progress"
             /\ IF Attached(w)
                THEN LET old == download_items[workers[w].idx]
                         new == download_items'[workers[w].idx]
                     IN /\ new.status = SKIPPED
                        /\ new.size
                        /\ new.checksum = old.checksum
                        /\ new.error = old.error
                        /\ new.start_time = old.start_time
                        /\ new.end_time = old.end_time
                        /\ new.url = old.url
                        /\ \A i \in DOMAIN download_items \ {workers[w].idx} :
                              download_items'[i] = download_items[i]
                        /\ Len(download_items') = Len(download_items)
                ELSE UNCHANGED download_items]_vars

\* A task that was downloaded in an earlier run has been skipped: its start
\* and end timestamps are those of the download.
C35_Witness ==
    \E w \in Threads : \E t \in workers[w].skipped :
        /\ InList(t)
        /\ download_items[t.i].status = SKIPPED
        /\ download_items[t.i].start_time
        /\ download_items[t.i].end_time
        /\ workers[w].calls = <<>>

\* C36: single active task.  At most one item has status Downloading and
\* click_download_button is in progress in at most one thread.
C36_SingleActiveTask ==
    /\ Cardinality({i \in DOMAIN download_items :
                       download_items[i].status = DOWNLOADING}) <= 1
    /\ Cardinality({w \in Threads : workers[w].pc = "downloading"}) <= 1

\* How often worker w has called check_file_exists for task t.
Queries(w, t) ==
    Cardinality({k \in DOMAIN workers[w].checks : workers[w].checks[k].task = t})
      + Cardinality({k \in DOMAIN workers[w].rechecks : workers[w].rechecks[k] = t})

\* Worker w is done with the task of its k-th check.
DoneWith(w, k) ==
    \/ k < Len(workers[w].checks)
    \/ workers[w].pc \in {"loop", "finally", "complete", "done"}

\* C37: oracle query count.  For every task a worker is done with,
\* check_file_exists was called twice if click_download_button returned
\* True for it, and once if the task was skipped or click_download_button
\* returned anything else; a worker calls check_file_exists a second time
\* only after a result of True.
C37_OracleQueryCount ==
    \A w \in Threads :
        /\ \A k \in DOMAIN workers[w].checks :
              LET t == workers[w].checks[k].task
                  results == {workers[w].calls[c].res :
                                 c \in {c \in DOMAIN workers[w].calls :
                                           workers[w].calls[c].task = t}}
              IN DoneWith(w, k)
                 => /\ results = {"true"} => Queries(w, t) = 2
                    /\ results = {"false"} => Queries(w, t) = 1
                    /\ t \in workers[w].skipped => Queries(w, t) = 1 /\ results = {}
        /\ \A k \in DOMAIN workers[w].rechecks :
              \E c \in DOMAIN workers[w].calls :
                 /\ workers[w].calls[c].task = workers[w].rechecks[k]
                 /\ workers[w].calls[c].res = "true"

\* A run has ended with a task Completed after two queries, a task Failed
\* after one.
C37_Witness ==
    \E w \in Threads :
        /\ workers[w].pc = "done"
        /\ Len(workers[w].calls) = 2
        /\ workers[w].calls[1].res = "false"
        /\ workers[w].calls[2].res = "true"
        /\ Queries(w, workers[w].calls[1].task) = 1
        /\ Queries(w, workers[w].calls[2].task) = 2

\* The two files.
Variants == {"repack", "richer"}

\* C38: the two variants agree.  On every answer of check_file_exists a
\* worker got, the skip tests of the two files decide alike (so that both
\* skip the task or both call click_download_button for it), and for every
\* item that is Failed the else branches of the two files write the same
\* status and failure detail.
C38_VariantsAgree ==
    \A v1, v2 \in Variants :
        /\ \A w \in Threads : \A k \in DOMAIN workers[w].checks :
              LET existing == workers[w].checks[k].existing IN
              (existing \in PartialSuffixesIn(v1)) <=> (existing \in PartialSuffixesIn(v2))
        /\ \A i \in DOMAIN download_items :
              download_items[i].status = FAILED
              => FailedIn(v1, download_items[i]) = FailedIn(v2, download_items[i])

====
